---------------------------- MODULE Spec2Model ----------------------------
(***************************************************************************)
(* Verification model of lunar_vn (src/src/lunar_vn/core.py): Julian Day   *)
(* Number arithmetic, the astronomical primitives (new moon day, sun       *)
(* longitude sector), the month-11 and leap-month locators, the two        *)
(* directional converters and the lru_cache memoisation around the four    *)
(* astronomical functions.                                                  *)
(*                                                                         *)
(* Python floats are modelled by decimal fixed-point numbers with nine     *)
(* fractional digits (Dec, below).  Every decimal constant of core.py has  *)
(* at most nine fractional digits and is written with the digits of the    *)
(* source.  All intermediate integers stay below 2^31.                     *)
(***************************************************************************)
EXTENDS Integers, Sequences, FiniteSets, TLC

(***************************************************************************)
(* Dec: a real number w + n / 10^9 held as <<w, n>> with 0 <= n < 10^9.    *)
(* The functions below stand for Python's float +, -, *, / and math.floor  *)
(* and math.sin.                                                           *)
(***************************************************************************)
NANO == 1000000000

Dec == Int \X (0 .. NANO - 1)

\* the decimal constant w.n, n given as its nine fractional digits
D(w, n) == <<w, n>>

DInt(i) == <<i, 0>>

DAdd[a \in Dec, b \in Dec] ==
    <<a[1] + b[1] + ((a[2] + b[2]) \div NANO), (a[2] + b[2]) % NANO>>

DSub[a \in Dec, b \in Dec] ==
    <<a[1] - b[1] + ((a[2] - b[2]) \div NANO), (a[2] - b[2]) % NANO>>

DNeg[a \in Dec] == DSub[DInt(0), a]

DLe(a, b) == a[1] < b[1] \/ (a[1] = b[1] /\ a[2] <= b[2])

DLt(a, b) == a[1] < b[1] \/ (a[1] = b[1] /\ a[2] < b[2])

\* a * j for an integer j, exact (|j| and |a[1] * j| stay small)
DTimes[a \in Dec, j \in Int] ==
    LET a0 == a[2] % 1000
        a1 == (a[2] \div 1000) % 1000
        a2 == a[2] \div 1000000
        p0 == a0 * j
        p1 == a1 * j + (p0 \div 1000)
        p2 == a2 * j + (p1 \div 1000)
    IN  << a[1] * j + (p2 \div 1000),
           (p2 % 1000) * 1000000 + (p1 % 1000) * 1000 + (p0 % 1000) >>

\* product of two fractional parts n1/10^9 * n2/10^9, in units of 10^-9
FracMul(n1, n2) ==
    LET a0 == n1 % 1000
        a1 == (n1 \div 1000) % 1000
        a2 == n1 \div 1000000
        b0 == n2 % 1000
        b1 == (n2 \div 1000) % 1000
        b2 == n2 \div 1000000
    IN  a2 * b2 * 1000 + a2 * b1 + a1 * b2
        + ((a2 * b0 + a1 * b1 + a0 * b2 + ((a1 * b0 + a0 * b1) \div 1000)) \div 1000)

\* a * b, rounded down to 10^-9 (error below 2 * 10^-9)
DMul[a \in Dec, b \in Dec] ==
    DAdd[DAdd[DInt(a[1] * b[1]), DTimes[<<0, b[2]>>, a[1]]],
         DAdd[DTimes[<<0, a[2]>>, b[1]], <<0, FracMul(a[2], b[2])>>]]

\* a / c for an integer 0 < c < 2 * 10^6, rounded down to 10^-9
DDivInt[a \in Dec, c \in Nat] ==
    LET t2 == (a[1] % c) * 1000 + (a[2] \div 1000000)
        t1 == (t2 % c) * 1000 + ((a[2] \div 1000) % 1000)
        t0 == (t1 % c) * 1000 + (a[2] % 1000)
    IN  << a[1] \div c,
           (t2 \div c) * 1000000 + (t1 \div c) * 1000 + (t0 \div c) >>

\* math.floor(x / d) for d > 0: the integer j with j * d <= x < (j + 1) * d,
\* searched from the estimate j
RECURSIVE DFix(_, _, _)
DFix(x, d, j) ==
    IF ~DLe(DTimes[d, j], x) THEN DFix(x, d, j - 1)
    ELSE IF DLe(DTimes[d, j + 1], x) THEN DFix(x, d, j + 1)
    ELSE j

DFloorDiv[x \in Dec, d \in Dec] ==
    DFix(x, d, (x[1] * 100) \div (d[1] * 100 + (d[2] \div 10000000)))

\* math.floor(x / d + 0.5) for d > 0, as floor((2 x + d) / (2 d))
DFloorDivHalf[x \in Dec, d \in Dec] == DFloorDiv[DAdd[DTimes[x, 2], d], DTimes[d, 2]]

\* math.floor
int_floor(x) == x[1]

PI == D(3, 141592654)

TWO_PI == DTimes[PI, 2]

HALF_PI == DDivInt[PI, 2]

\* x - d * math.floor(x / d): x reduced to [0, d)
DMod[x \in Dec, d \in Dec] == DSub[x, DTimes[d, DFloorDiv[x, d]]]

\* the sum of a sequence of Decs
DSum[t \in Seq(Dec)] ==
    IF t = <<>> THEN DInt(0) ELSE DAdd[DSum[SubSeq(t, 1, Len(t) - 1)], t[Len(t)]]

\* one factor of the nested Taylor series of sin(x) / x: 1 - x2 * tail / c
HornerStep[x2 \in Dec, tail \in Dec, c \in Nat] ==
    DSub[DInt(1), DDivInt[DMul[x2, tail], c]]

\* (1 - x2/((n-1) n) (1 - x2/((n+1) (n+2)) (... (1 - x2/(14 * 15))))):
\* the Taylor series of sin(x) / x from its x^(n-1) term on
SinTail[x2 \in Dec, n \in Nat] ==
    IF n > 15 THEN DInt(1) ELSE HornerStep[x2, SinTail[x2, n + 2], (n - 1) * n]

\* sin x for 0 <= x <= pi/2: the Taylor series through x^15 / 15!
SinSeries[x \in Dec] == DMul[x, SinTail[DMul[x, x], 3]]

\* the angle in [0, pi/2] with the same sine as s in [0, pi]
FoldHalfTurn[s \in Dec] == IF DLt(HALF_PI, s) THEN DSub[PI, s] ELSE s

\* the angle in [0, pi/2] whose sine is |sin r|, r in [0, 2 pi)
FoldTurn[r \in Dec] == FoldHalfTurn[IF DLt(PI, r) THEN DSub[r, PI] ELSE r]

\* sin r for r in [0, 2 pi): negative on (pi, 2 pi)
SinTurn[r \in Dec] == DTimes[SinSeries[FoldTurn[r]], IF DLt(PI, r) THEN -1 ELSE 1]

\* math.sin
DSin[x \in Dec] == SinTurn[DMod[x, TWO_PI]]

\* sign * coef * math.sin(arg)
SinTerm[sign \in {-1, 1}, coef \in Dec, arg \in Dec] ==
    DTimes[DMul[coef, DSin[arg]], sign]

(***************************************************************************)
(* JDN converter                                                           *)
(***************************************************************************)
\* faulty variant: the first Gregorian day taken for a Julian one
jd_from_date_mut(dd, mm, yy) ==
    LET a == (14 - mm) \div 12
        y == yy + 4800 - a
        m == mm + 12 * a - 3
        jd == dd + ((153 * m + 2) \div 5) + 365 * y + (y \div 4)
              - (y \div 100) + (y \div 400) - 32045
    IN  IF jd <= 2299161
        THEN dd + ((153 * m + 2) \div 5) + 365 * y + (y \div 4) - 32083
        ELSE jd

\* faulty variant: the Julian branch with jd_to_date's offset 32082
jd_from_date_offset_mut(dd, mm, yy) ==
    LET a == (14 - mm) \div 12
        y == yy + 4800 - a
        m == mm + 12 * a - 3
        jd == dd + ((153 * m + 2) \div 5) + 365 * y + (y \div 4)
              - (y \div 100) + (y \div 400) - 32045
    IN  IF jd < 2299161
        THEN dd + ((153 * m + 2) \div 5) + 365 * y + (y \div 4) - 32082
        ELSE jd

jd_from_date(dd, mm, yy) ==
    LET a == (14 - mm) \div 12
        y == yy + 4800 - a
        m == mm + 12 * a - 3
        jd == dd + ((153 * m + 2) \div 5) + 365 * y + (y \div 4)
              - (y \div 100) + (y \div 400) - 32045
    IN  IF jd < 2299161
        THEN dd + ((153 * m + 2) \div 5) + 365 * y + (y \div 4) - 32083
        ELSE jd

\* faulty variant: the first Gregorian day taken for a Julian one
jd_to_date_mut(jd) ==
    LET greg == jd > 2299161
        a == jd + 32044
        b == IF greg THEN (4 * a + 3) \div 146097 ELSE 0
        c == IF greg THEN a - ((b * 146097) \div 4) ELSE jd + 32082
        d == (4 * c + 3) \div 1461
        e == c - ((1461 * d) \div 4)
        m == (5 * e + 2) \div 153
    IN  << e - ((153 * m + 2) \div 5) + 1,
           m + 3 - 12 * (m \div 10),
           b * 100 + d - 4800 + (m \div 10) >>

jd_to_date(jd) ==
    LET greg == jd > 2299160
        a == jd + 32044
        b == IF greg THEN (4 * a + 3) \div 146097 ELSE 0
        c == IF greg THEN a - ((b * 146097) \div 4) ELSE jd + 32082
        d == (4 * c + 3) \div 1461
        e == c - ((1461 * d) \div 4)
        m == (5 * e + 2) \div 153
    IN  << e - ((153 * m + 2) \div 5) + 1,
           m + 3 - 12 * (m \div 10),
           b * 100 + d - 4800 + (m \div 10) >>

(***************************************************************************)
(* Astronomical primitives                                                 *)
(***************************************************************************)
\* PI / 180
dr == DDivInt[PI, 180]

\* T = k / 1236.85 (core.py line 74)
moon_T(k) == DDivInt[DInt(k * 100), 123685]

\* mean new moon (lines 78-79)
moon_Jd0(k, T2, T3) ==
    DSub[DAdd[DAdd[D(2415020, 759330000), DMul[D(29, 530588680), DInt(k)]],
              DMul[D(0, 117800), T2]],
         DMul[D(0, 155), T3]]

\* Sun's mean anomaly (line 82)
moon_M(k, T2, T3) ==
    DSub[DSub[DAdd[D(359, 224200000), DMul[D(29, 105356080), DInt(k)]],
              DMul[D(0, 33300), T2]],
         DMul[D(0, 3470), T3]]

\* Moon's mean anomaly (line 83)
moon_Mpr(k, T2, T3) ==
    DAdd[DAdd[DAdd[D(306, 25300000), DMul[D(385, 816918060), DInt(k)]],
              DMul[D(0, 10730600), T2]],
         DMul[D(0, 12360), T3]]

\* Moon's argument of latitude (line 84)
moon_F(k, T2, T3) ==
    DSub[DSub[DAdd[D(21, 296400000), DMul[D(390, 670506460), DInt(k)]],
              DMul[D(0, 1652800), T2]],
         DMul[D(0, 2390), T3]]

\* the periodic terms of Jd1 (line 80) and of C1 (lines 86-92)
moon_terms[T \in Dec, T2 \in Dec, M \in Dec, Mpr \in Dec, F \in Dec] ==
    << SinTerm[1, D(0, 330000),
               DMul[DSub[DAdd[D(166, 560000000), DMul[D(132, 870000000), T]],
                         DMul[D(0, 9173000), T2]], dr]],
       SinTerm[1, DSub[D(0, 173400000), DMul[D(0, 393000), T]], DMul[M, dr]],
       SinTerm[1, D(0, 2100000), DMul[DTimes[dr, 2], M]],
       SinTerm[-1, D(0, 406800000), DMul[Mpr, dr]],
       SinTerm[1, D(0, 16100000), DMul[DTimes[dr, 2], Mpr]],
       SinTerm[-1, D(0, 400000), DMul[DTimes[dr, 3], Mpr]],
       SinTerm[1, D(0, 10400000), DMul[DTimes[dr, 2], F]],
       SinTerm[-1, D(0, 5100000), DMul[dr, DAdd[M, Mpr]]],
       SinTerm[-1, D(0, 7400000), DMul[dr, DSub[M, Mpr]]],
       SinTerm[1, D(0, 400000), DMul[dr, DAdd[DTimes[F, 2], M]]],
       SinTerm[-1, D(0, 400000), DMul[dr, DSub[DTimes[F, 2], M]]],
       SinTerm[-1, D(0, 600000), DMul[dr, DAdd[DTimes[F, 2], Mpr]]],
       SinTerm[1, D(0, 1000000), DMul[dr, DSub[DTimes[F, 2], Mpr]]],
       SinTerm[1, D(0, 500000), DMul[dr, DAdd[DTimes[Mpr, 2], M]]] >>

\* the correction from dynamical to universal time (lines 94-97)
moon_deltat(T, T2, T3) ==
    IF DLt(T, DInt(-11))
    THEN DSub[DSub[DAdd[DAdd[D(0, 1000000), DMul[D(0, 839000), T]],
                        DMul[D(0, 226100), T2]],
                   DMul[D(0, 8450), T3]],
              DMul[D(0, 81), DMul[T, T3]]]
    ELSE DAdd[DAdd[DNeg[D(0, 278000)], DMul[D(0, 265000), T]],
              DMul[D(0, 262000), T2]]

\* JdNew = Jd1 + C1 - deltat (line 99)
moon_JdNew[k \in Int, T \in Dec, T2 \in Dec, T3 \in Dec] ==
    DSub[DAdd[moon_Jd0(k, T2, T3),
              DSum[moon_terms[T, T2, moon_M(k, T2, T3), moon_Mpr(k, T2, T3),
                              moon_F(k, T2, T3)]]],
         moon_deltat(T, T2, T3)]

\* body of get_new_moon_day; time_zone in whole hours
new_moon_day(k, time_zone) ==
    int_floor(DAdd[DAdd[moon_JdNew[k, moon_T(k), DMul[moon_T(k), moon_T(k)],
                                   DMul[DMul[moon_T(k), moon_T(k)], moon_T(k)]],
                        D(0, 500000000)],
                   DDivInt[DInt(time_zone), 24]])

\* T (line 109)
sun_T(jdn, time_zone) ==
    DDivInt[DSub[DSub[DInt(jdn), D(2451545, 500000000)],
                 DDivInt[DInt(time_zone), 24]], 36525]

\* Sun's mean anomaly (line 112)
sun_M(T, T2) ==
    DSub[DSub[DAdd[D(357, 529100000), DMul[D(35999, 50300000), T]],
              DMul[D(0, 155900), T2]],
         DMul[D(0, 480), DMul[T, T2]]]

\* mean longitude (line 113)
sun_L0(T, T2) ==
    DAdd[DAdd[D(280, 466450000), DMul[D(36000, 769830000), T]],
         DMul[D(0, 303200), T2]]

\* the terms of DL (lines 114-116)
sun_terms[T \in Dec, T2 \in Dec, M \in Dec] ==
    << SinTerm[1, DSub[DSub[D(1, 914600000), DMul[D(0, 4817000), T]],
                       DMul[D(0, 14000), T2]], DMul[dr, M]],
       SinTerm[1, DSub[D(0, 19993000), DMul[D(0, 101000), T]],
               DMul[DTimes[dr, 2], M]],
       SinTerm[1, D(0, 290000), DMul[DTimes[dr, 3], M]] >>

\* L = (L0 + DL) * dr (lines 117-118)
sun_L[T \in Dec, T2 \in Dec] ==
    DMul[DAdd[sun_L0(T, T2), DSum[sun_terms[T, T2, sun_M(T, T2)]]], dr]

\* body of get_sun_longitude; time_zone in whole hours
sun_longitude(jdn, time_zone) ==
    DFloorDiv[DTimes[DMod[sun_L[sun_T(jdn, time_zone),
                                DMul[sun_T(jdn, time_zone), sun_T(jdn, time_zone)]],
                          TWO_PI], 6], PI]

(***************************************************************************)
(* State.  Each of the specifications below drives one group of variables  *)
(* and leaves the other groups idle.                                       *)
(***************************************************************************)
VARIABLES
    \* the four lru_cache tables, from the key of a call to its value
    new_moon_cache, sun_longitude_cache, lunar_month11_cache,
    leap_month_offset_cache,
    \* JDN converter calls: position, the date, the JDN, the results
    jpc, jdate, jjdn, resDate, resJdn,
    \* solar_to_lunar / lunar_to_solar calls: position, time zone, the solar
    \* date, the lunar date, the solar date converted back
    cpc, tz, solar, lunar, back,
    \* one run of the loop of get_leap_month_offset: its locals
    scan,
    \* concurrent callers of the memoized functions: each thread's call stack
    \* and what its last call returned
    frames, ret

cacheVars ==
    <<new_moon_cache, sun_longitude_cache, lunar_month11_cache, leap_month_offset_cache>>

jdnVars == <<jpc, jdate, jjdn, resDate, resJdn>>

convVars == <<cpc, tz, solar, lunar, back>>

threadVars == <<frames, ret>>

vars == <<cacheVars, jdnVars, convVars, scan, threadVars>>

(***************************************************************************)
(* lru_cache(maxsize=None) around the four astronomical functions.  get_f  *)
(* is a call whose key the cache holds (a hit); the body f is what a miss  *)
(* computes and stores.                                                    *)
(***************************************************************************)
\* the key of a call: the tuple of its arguments
cache_key_mut(a, time_zone) == <<a, 0>>

cache_key(a, time_zone) == <<a, time_zone>>

get_new_moon_day(k, time_zone) == new_moon_cache[cache_key(k, time_zone)]

get_sun_longitude(jdn, time_zone) == sun_longitude_cache[cache_key(jdn, time_zone)]

\* the new moon index that get_lunar_month11 starts from in year yy
month11_index(yy) ==
    DFloorDiv[DInt(jd_from_date(31, 12, yy) - 2415021), D(29, 530588853)]

\* body of get_lunar_month11
lunar_month11(yy, time_zone) ==
    LET k == month11_index(yy)
        nm == get_new_moon_day(k, time_zone)
        sun_long == get_sun_longitude(nm, time_zone)
    IN  IF sun_long >= 9 THEN get_new_moon_day(k - 1, time_zone) ELSE nm

get_lunar_month11(yy, time_zone) == lunar_month11_cache[cache_key(yy, time_zone)]

\* the new moon index of the day a11
anchor_index(a11) ==
    DFloorDivHalf[DSub[DInt(a11), D(2415021, 76998695)], D(29, 530588853)]

\* the loop's exit test
scan_done_mut(arc, last, i) == arc = last \/ i > 14

scan_done(arc, last, i) == arc = last \/ i >= 14

\* the do-while loop of get_leap_month_offset from the state (i, arc)
RECURSIVE leap_scan(_, _, _, _)
leap_scan(k, time_zone, i, arc) ==
    LET last == arc
        i2 == i + 1
        arc2 == get_sun_longitude(get_new_moon_day(k + i2, time_zone), time_zone)
    IN  IF scan_done(arc2, last, i2) THEN i2 - 1
        ELSE leap_scan(k, time_zone, i2, arc2)

\* body of get_leap_month_offset
leap_month_offset(a11, time_zone) ==
    leap_scan(anchor_index(a11), time_zone, 1,
              get_sun_longitude(get_new_moon_day(anchor_index(a11) + 1, time_zone),
                                time_zone))

get_leap_month_offset(a11, time_zone) ==
    leap_month_offset_cache[cache_key(a11, time_zone)]

(***************************************************************************)
(* Directional converters                                                  *)
(***************************************************************************)
LunarDate(day, month, year, leap) ==
    [day |-> day, month |-> month, year |-> year, leap |-> leap]

\* the month number and the leap flag of the month that starts diff new
\* moons after a11
lunar_month_leap_mut(diff, leap_year, leap_month_diff) ==
    LET after == leap_year /\ diff > leap_month_diff
        lunar_month == IF after THEN diff + 10 ELSE diff + 11
    IN  << IF lunar_month > 12 THEN lunar_month - 12 ELSE lunar_month,
           after /\ diff = leap_month_diff >>

lunar_month_leap(diff, leap_year, leap_month_diff) ==
    LET after == leap_year /\ diff >= leap_month_diff
        lunar_month == IF after THEN diff + 10 ELSE diff + 11
    IN  << IF lunar_month > 12 THEN lunar_month - 12 ELSE lunar_month,
           after /\ diff = leap_month_diff >>

convert_solar_to_lunar(dd, mm, yy, time_zone) ==
    LET day_number == jd_from_date(dd, mm, yy)
        k == DFloorDiv[DSub[DInt(day_number), D(2415021, 76998695)], D(29, 530588853)]
        nm1 == get_new_moon_day(k + 1, time_zone)
        month_start == IF nm1 > day_number THEN get_new_moon_day(k, time_zone) ELSE nm1
        y11 == get_lunar_month11(yy, time_zone)
        before == y11 >= month_start
        a11 == IF before THEN get_lunar_month11(yy - 1, time_zone) ELSE y11
        b11 == IF before THEN y11 ELSE get_lunar_month11(yy + 1, time_zone)
        lunar_year0 == IF before THEN yy ELSE yy + 1
        lunar_day == day_number - month_start + 1
        diff == (month_start - a11) \div 29
        leap_year == b11 - a11 > 365
        ml == lunar_month_leap(diff, leap_year,
                               IF leap_year THEN get_leap_month_offset(a11, time_zone) ELSE 0)
        lunar_month == ml[1]
        lunar_leap == ml[2]
        lunar_year == IF lunar_month >= 11 /\ diff < 4
                      THEN lunar_year0 - 1 ELSE lunar_year0
    IN  LunarDate(lunar_day, lunar_month, lunar_year, lunar_leap)

\* the month's ordinal offset from month 11
month_offset_mut(lunar_month) ==
    IF lunar_month - 11 <= 0 THEN lunar_month - 11 + 12 ELSE lunar_month - 11

month_offset(lunar_month) ==
    IF lunar_month - 11 < 0 THEN lunar_month - 11 + 12 ELSE lunar_month - 11

\* the leap month number that the leap flag is checked against
leap_month_number_mut(leap_off) ==
    IF leap_off - 1 < 0 THEN leap_off - 1 + 12 ELSE leap_off - 1

leap_month_number(leap_off) ==
    IF leap_off - 2 < 0 THEN leap_off - 2 + 12 ELSE leap_off - 2

\* the month 11 anchors on either side of a lunar month
lunar_a11(lunar_month, lunar_year, time_zone) ==
    IF lunar_month < 11 THEN get_lunar_month11(lunar_year - 1, time_zone)
    ELSE get_lunar_month11(lunar_year, time_zone)

lunar_b11(lunar_month, lunar_year, time_zone) ==
    IF lunar_month < 11 THEN get_lunar_month11(lunar_year, time_zone)
    ELSE get_lunar_month11(lunar_year + 1, time_zone)

\* [error |-> TRUE] stands for the ValueError; otherwise date is <<dd, mm, yy>>
convert_lunar_to_solar(lunar_day, lunar_month, lunar_year, lunar_leap, time_zone) ==
    LET a11 == lunar_a11(lunar_month, lunar_year, time_zone)
        b11 == lunar_b11(lunar_month, lunar_year, time_zone)
        off0 == month_offset(lunar_month)
        leap_year == b11 - a11 > 365
        leap_off == IF leap_year THEN get_leap_month_offset(a11, time_zone) ELSE 0
        leap_month == leap_month_number(leap_off)
        off == IF leap_year /\ (lunar_leap \/ off0 >= leap_off) THEN off0 + 1 ELSE off0
        k == anchor_index(a11)
        month_start == get_new_moon_day(k + off, time_zone)
    IN  IF leap_year /\ lunar_leap /\ lunar_month # leap_month
        THEN [error |-> TRUE, date |-> <<0, 0, 0>>]
        ELSE [error |-> FALSE, date |-> jd_to_date(month_start + lunar_day - 1)]

(***************************************************************************)
(* Model inputs                                                            *)
(***************************************************************************)
\* the time zones of the model, in hours east of UTC (7: Vietnam)
TZ_VN == 7

TimeZones == {0, TZ_VN}

\* the solar years of the round-trip test
FirstYear == 1990

LastYear == 2030

\* at time zone 0 the lunar year 1870 has 13 months and its leap month is 12
OldYear == 1870

\* the years whose month 11 the conversions of the model ask for
Years(time_zone) ==
    IF time_zone = TZ_VN THEN (FirstYear - 1)..(LastYear + 1)
    ELSE (OldYear - 1)..(OldYear + 2)

year_keys ==
    UNION {{cache_key(yy, time_zone) : yy \in Years(time_zone)} : time_zone \in TimeZones}

\* the new moons within reach of those years
new_moon_keys ==
    UNION {{cache_key(k, yk[2]) : k \in (month11_index(yk[1]) - 14)..(month11_index(yk[1]) + 14)} :
           yk \in year_keys}

\* the caches after every call the model's conversions make
WarmCaches ==
    /\ new_moon_cache = [key \in new_moon_keys |-> new_moon_day(key[1], key[2])]
    /\ sun_longitude_cache =
           [key \in {cache_key(new_moon_cache[nk], nk[2]) : nk \in new_moon_keys} |->
               sun_longitude(key[1], key[2])]
    /\ lunar_month11_cache = [key \in year_keys |-> lunar_month11(key[1], key[2])]
    /\ leap_month_offset_cache =
           [key \in {cache_key(lunar_month11_cache[yk], yk[2]) : yk \in year_keys} |->
               leap_month_offset(key[1], key[2])]

\* the caches of a fresh process
ColdCaches ==
    /\ new_moon_cache = <<>>
    /\ sun_longitude_cache = <<>>
    /\ lunar_month11_cache = <<>>
    /\ leap_month_offset_cache = <<>>

NoDate == <<0, 0, 0>>

NoLunar == LunarDate(0, 0, 0, FALSE)

NoScan ==
    [pc |-> "idle", k |-> 0, i |-> 0, last |-> 0, arc |-> 0, reads |-> 0,
     first_equal |-> 0, offset |-> 0]

NoReturn == [fn |-> "", a |-> 0, tz |-> 0, value |-> 0, hit |-> FALSE]

\* the threads calling the memoized functions
NumThreads == 2

Threads == 1..NumThreads

JdnIdle == jpc = "idle" /\ jdate = NoDate /\ jjdn = 0 /\ resDate = NoDate /\ resJdn = 0

ConvIdle == cpc = "idle" /\ tz = TZ_VN /\ solar = NoDate /\ lunar = NoLunar /\ back = NoDate

ScanIdle == scan = NoScan

ThreadsIdle == frames = [t \in Threads |-> <<>>] /\ ret = [t \in Threads |-> NoReturn]

(***************************************************************************)
(* JDN converter: date -> JDN -> date and JDN -> date -> JDN               *)
(***************************************************************************)
\* the Gregorian calendar is in force from 15/10/1582; the days 5..14 of
\* that month do not exist
TransitionYear == 1582

is_gregorian(dd, mm, yy) ==
    \/ yy > TransitionYear
    \/ yy = TransitionYear /\ (mm > 10 \/ (mm = 10 /\ dd >= 15))

is_leap_year(yy, gregorian) ==
    IF gregorian THEN yy % 4 = 0 /\ (yy % 100 # 0 \/ yy % 400 = 0)
    ELSE yy % 4 = 0

days_in_month(mm, yy, gregorian) ==
    IF mm = 2 THEN (IF is_leap_year(yy, gregorian) THEN 29 ELSE 28)
    ELSE IF mm \in {4, 6, 9, 11} THEN 30 ELSE 31

valid_date(dd, mm, yy) ==
    /\ dd \in 1..days_in_month(mm, yy, is_gregorian(dd, mm, yy))
    /\ ~(yy = TransitionYear /\ mm = 10 /\ dd \in 5..14)

\* the years on either side of the transition whose every day is an input
YearSpan == 20

\* century years of both calendars, and the years of the tests
FarYears == {1500, 1700, 1900, 1999, 2000, 2024, 2025, 2026}

JdnYears == ((TransitionYear - YearSpan)..(TransitionYear + YearSpan)) \cup FarYears

JdnDates ==
    {d \in (1..31) \X (1..12) \X JdnYears : valid_date(d[1], d[2], d[3])}

JdnNumbers ==
    jd_from_date(1, 1, TransitionYear - YearSpan)..jd_from_date(31, 12, TransitionYear + YearSpan)

\* the reference values of the tests
JdnAnchors ==
    {<<<<1, 1, 2000>>, 2451545>>, <<<<4, 10, 1582>>, 2299160>>, <<<<15, 10, 1582>>, 2299161>>}

InitJdn ==
    /\ ColdCaches
    /\ ConvIdle
    /\ ScanIdle
    /\ ThreadsIdle
    /\ resDate = NoDate
    /\ resJdn = 0
    /\ \/ jpc = "date" /\ jdate \in JdnDates /\ jjdn = 0
       \/ jpc = "jdn" /\ jdate = NoDate /\ jjdn \in JdnNumbers

\* a call of jd_from_date: on the input date, or on the date jd_to_date gave
date_to_jdn ==
    /\ jpc \in {"date", "jdn_date"}
    /\ LET d == IF jpc = "date" THEN jdate ELSE resDate
       IN  resJdn' = jd_from_date(d[1], d[2], d[3])
    /\ jpc' = IF jpc = "date" THEN "date_jdn" ELSE "jdn_done"
    /\ UNCHANGED <<jdate, jjdn, resDate, cacheVars, convVars, scan, threadVars>>

\* a call of jd_to_date: on the input JDN, or on the JDN jd_from_date gave
jdn_to_date ==
    /\ jpc \in {"jdn", "date_jdn"}
    /\ resDate' = jd_to_date(IF jpc = "jdn" THEN jjdn ELSE resJdn)
    /\ jpc' = IF jpc = "jdn" THEN "jdn_date" ELSE "date_done"
    /\ UNCHANGED <<jdate, jjdn, resJdn, cacheVars, convVars, scan, threadVars>>

NextJdn == date_to_jdn \/ jdn_to_date

SpecJdn == InitJdn /\ [][NextJdn]_vars

\* C4: every valid calendar date of the range that spans the transition
\* comes back from jd_to_date(jd_from_date(d, m, y)) unchanged
C4_DateRoundTrip == jpc = "date_done" => resDate = jdate

\* the first Gregorian day went through both conversions
C4_Witness ==
    jpc = "date_done" /\ jdate = <<15, 10, TransitionYear>> /\ resDate = jdate

\* C5: jd_from_date gives the reference values: 1/1/2000 is 2451545, and
\* 4/10/1582 and 15/10/1582 are the consecutive days 2299160 and 2299161
C5_KnownAnchors ==
    \A anchor \in JdnAnchors :
        (jpc \in {"date_jdn", "date_done"} /\ jdate = anchor[1]) => resJdn = anchor[2]

\* jd_from_date ran on the last Julian day
C5_Witness == jpc = "date_jdn" /\ jdate = <<4, 10, TransitionYear>> /\ resJdn = 2299160

\* C8: every JDN of the range around the transition comes back from
\* jd_from_date(jd_to_date(j)) unchanged
C8_JdnRoundTrip == jpc = "jdn_done" => resJdn = jjdn

\* the JDN of the first Gregorian day went through both conversions
C8_Witness ==
    jpc = "jdn_done" /\ jjdn = 2299161 /\ resDate = <<15, 10, TransitionYear>> /\ resJdn = jjdn

(***************************************************************************)
(* Conversions between solar and lunar dates                               *)
(***************************************************************************)
\* the round-trip test samples every step_days days
step_days == 11

SampleStart == jd_from_date(1, 1, FirstYear)

SampleEnd == jd_from_date(31, 12, LastYear)

SampleDates ==
    {jd_to_date(j) : j \in {n \in SampleStart..SampleEnd : (n - SampleStart) % step_days = 0}}

\* the reference dates of the tests: three Tet days and the first day of
\* the leap month of 2004
KnownPairs ==
    { <<<<10, 2, 2024>>, LunarDate(1, 1, 2024, FALSE)>>,
      <<<<29, 1, 2025>>, LunarDate(1, 1, 2025, FALSE)>>,
      <<<<17, 2, 2026>>, LunarDate(1, 1, 2026, FALSE)>>,
      <<<<21, 3, 2004>>, LunarDate(1, 2, 2004, TRUE)>> }

KnownDates == {pair[1] : pair \in KnownPairs}

\* every day of the solar years OldYear and OldYear + 1
OldDates == {jd_to_date(j) : j \in jd_from_date(1, 1, OldYear)..jd_from_date(31, 12, OldYear + 1)}

SolarInputs(time_zone) ==
    IF time_zone = TZ_VN THEN SampleDates \cup KnownDates ELSE OldDates

LunarDays == 1..30

LunarInputs(time_zone) ==
    [day : LunarDays, month : 1..12,
     year : IF time_zone = TZ_VN THEN FirstYear..LastYear ELSE OldYear..(OldYear + 1),
     leap : BOOLEAN]

InitConv ==
    /\ WarmCaches
    /\ JdnIdle
    /\ ScanIdle
    /\ ThreadsIdle
    /\ tz \in TimeZones
    /\ back = NoDate
    /\ \/ cpc = "solar" /\ solar \in SolarInputs(tz) /\ lunar = NoLunar
       \/ cpc = "lunar" /\ solar = NoDate /\ lunar \in LunarInputs(tz)

solar_to_lunar ==
    /\ cpc = "solar"
    /\ lunar' = convert_solar_to_lunar(solar[1], solar[2], solar[3], tz)
    /\ cpc' = "lunar"
    /\ UNCHANGED <<tz, solar, back, jdnVars, cacheVars, scan, threadVars>>

lunar_to_solar ==
    /\ cpc = "lunar"
    /\ LET r == convert_lunar_to_solar(lunar.day, lunar.month, lunar.year, lunar.leap, tz)
       IN  /\ cpc' = IF r.error THEN "error" ELSE "done"
           /\ back' = r.date
    /\ UNCHANGED <<tz, solar, lunar, jdnVars, cacheVars, scan, threadVars>>

NextConv == solar_to_lunar \/ lunar_to_solar

SpecConv == InitConv /\ [][NextConv]_vars

\* lunar_to_solar has returned or raised
Converted == cpc \in {"done", "error"}

\* the lunar year of the date in hand is 13 months long
LongYear ==
    lunar_b11(lunar.month, lunar.year, tz) - lunar_a11(lunar.month, lunar.year, tz) > 365

\* the scan's result for the lunar year of the date in hand
LeapOffset == get_leap_month_offset(lunar_a11(lunar.month, lunar.year, tz), tz)

\* The month that starts leap_off new moons after month 11 holds no major
\* solar term: it is the leap month and bears the number of the month before
\* it, the (leap_off - 1)-th after month 11.
actual_leap_month(leap_off) == ((leap_off + 9) % 12) + 1

\* C1: at time zone 7 every sampled solar date of 1990..2030 converted to a
\* lunar date and back is the same date, and the way back raises no error
C1_SolarRoundTrip ==
    (tz = TZ_VN /\ solar \in SampleDates /\ Converted) => (cpc = "done" /\ back = solar)

\* a sampled date that falls in a leap month made the round trip
C1_Witness ==
    /\ cpc = "done"
    /\ tz = TZ_VN
    /\ solar \in SampleDates
    /\ lunar.leap
    /\ back = solar

\* C2: at time zone 7 solar_to_lunar maps each reference date to its lunar
\* date (Tet 2024, 2025, 2026; the leap month 2 of 2004), and lunar_to_solar
\* maps each of these lunar dates back to the solar date
C2_KnownDates ==
    \A pair \in KnownPairs :
        /\ (tz = TZ_VN /\ solar = pair[1] /\ cpc \in {"lunar", "done", "error"})
               => lunar = pair[2]
        /\ (tz = TZ_VN /\ lunar = pair[2] /\ Converted)
               => (cpc = "done" /\ back = pair[1])

\* 21/3/2004 became day 1 of leap month 2 and came back
C2_Witness ==
    /\ cpc = "done"
    /\ tz = TZ_VN
    /\ solar = <<21, 3, 2004>>
    /\ lunar = LunarDate(1, 2, 2004, TRUE)
    /\ back = solar

\* C3: in a lunar year of 13 months, convert_lunar_to_solar called with the
\* leap flag set and a month that is not the year's leap month raises the
\* ValueError and returns no date
C3_LeapFlagRejected ==
    (Converted /\ lunar.leap /\ LongYear /\ lunar.month # actual_leap_month(LeapOffset))
        => (cpc = "error" /\ back = NoDate)

\* Lunar(1, 3, 2004, leap) was rejected: the leap month of 2004 is 2
C3_Witness ==
    /\ cpc = "error"
    /\ tz = TZ_VN
    /\ lunar = LunarDate(1, 3, 2004, TRUE)
    /\ LongYear
    /\ actual_leap_month(LeapOffset) = 2

\* C6: convert_lunar_to_solar called with the leap flag set for a lunar
\* year of 12 months raises the ValueError, whatever the month and the day
C6_LeapFlagShortYear ==
    (Converted /\ lunar.leap /\ ~LongYear) => cpc = "error"

\* C10: the month that convert_solar_to_lunar reports with the leap flag is
\* the leap month number convert_lunar_to_solar checks the flag against, so
\* the lunar date is converted back without the ValueError
C10_ConvertersAgree ==
    (solar # NoDate /\ cpc \in {"lunar", "done", "error"} /\ lunar.leap)
        => /\ lunar.month = leap_month_number(LeapOffset)
           /\ cpc # "error"

(***************************************************************************)
(* The loop of get_leap_month_offset over arbitrary sun longitude sectors  *)
(***************************************************************************)
\* what get_sun_longitude can return
Sectors == 0..11

\* month 11 of 2003 and of 2023 at time zone 7
ScanAnchors == {jd_from_date(24, 11, 2003), jd_from_date(13, 12, 2023)}

InitScan ==
    /\ ColdCaches
    /\ JdnIdle
    /\ ConvIdle
    /\ ThreadsIdle
    /\ ScanIdle

\* the lines before the loop: the sector of new moon k + 1 is read.
\* reads counts the sectors read; first_equal is the least j such that the
\* sectors read for the new moons k + j and k + j + 1 are equal, 0 while
\* there is none.
scan_begin ==
    /\ scan.pc = "idle"
    /\ \E a11 \in ScanAnchors, sector \in Sectors :
           scan' = [pc |-> "loop", k |-> anchor_index(a11), i |-> 1, last |-> 0,
                    arc |-> sector, reads |-> 1, first_equal |-> 0, offset |-> 0]
    /\ UNCHANGED <<cacheVars, jdnVars, convVars, threadVars>>

\* one pass of the loop: the sector of new moon k + i is read
scan_pass ==
    /\ scan.pc = "loop"
    /\ \E sector \in Sectors :
           LET last == scan.arc
               i == scan.i + 1
               done == scan_done(sector, last, i)
           IN  scan' = [pc |-> IF done THEN "done" ELSE "loop",
                        k |-> scan.k, i |-> i, last |-> last, arc |-> sector,
                        reads |-> scan.reads + 1,
                        first_equal |-> IF scan.first_equal = 0 /\ sector = scan.arc
                                        THEN scan.i ELSE scan.first_equal,
                        offset |-> IF done THEN i - 1 ELSE 0]
    /\ UNCHANGED <<cacheVars, jdnVars, convVars, threadVars>>

NextScan == scan_begin \/ scan_pass

SpecScan == InitScan /\ [][NextScan]_vars

\* C9: whatever the sectors of the new moons after the anchor, the scan
\* ends within 14 sector reads and returns an offset in 1..13: the index of
\* the first new moon whose sector equals the next one's, or 13 without one
C9_LeapScan ==
    /\ scan.reads <= 14
    /\ scan.pc = "loop" => scan.reads < 14
    /\ scan.pc = "done" =>
           /\ scan.offset \in 1..13
           /\ scan.offset = IF scan.first_equal # 0 THEN scan.first_equal ELSE 13

\* the scan ran to the bound without two equal sectors in a row
C9_Witness ==
    scan.pc = "done" /\ scan.reads = 14 /\ scan.first_equal = 0 /\ scan.offset = 13

(***************************************************************************)
(* Concurrent callers of the memoized functions.  A call looks its key up  *)
(* in the function's cache; on a miss it runs the body, whose calls of     *)
(* memoized functions are calls of the same kind, and stores the result.   *)
(* A lookup and a store are atomic; the body runs between them, unlocked.  *)
(***************************************************************************)
\* the lunar year of the leap month test; the conversions of its dates
\* start from the month 11 of the year before
LeapTestYear == 2004

CacheYear == LeapTestYear - 1

\* the new moons within reach of CacheYear
CacheMoons == (month11_index(CacheYear) - 2)..(month11_index(CacheYear) + 14)

\* the bodies of get_new_moon_day and get_sun_longitude, tabulated over the
\* arguments the threads' calls can reach
pure_new_moon ==
    [key \in CacheMoons \X TimeZones |-> new_moon_day(key[1], key[2])] @@ <<>>

pure_sun_longitude ==
    [key \in {pure_new_moon[mk] : mk \in CacheMoons \X TimeZones} \X TimeZones |->
        sun_longitude(key[1], key[2])] @@ <<>>

\* a call frame: the function, its arguments, the position in its body and
\* the body's locals
Frame(fn, a, time_zone) ==
    [fn |-> fn, a |-> a, tz |-> time_zone, pc |-> "lookup",
     k |-> 0, i |-> 0, nm |-> 0, arc |-> 0, val |-> 0]

cache_of(fn) ==
    CASE fn = "get_new_moon_day" -> new_moon_cache
      [] fn = "get_sun_longitude" -> sun_longitude_cache
      [] fn = "get_lunar_month11" -> lunar_month11_cache
      [] fn = "get_leap_month_offset" -> leap_month_offset_cache

\* the body of frame f up to its first call of a memoized function, or, with
\* no such call, up to its return value: the frames that replace f
enter(f) ==
    CASE f.fn = "get_new_moon_day" ->
            <<[f EXCEPT !.val = pure_new_moon[<<f.a, f.tz>>], !.pc = "store"]>>
      [] f.fn = "get_sun_longitude" ->
            <<[f EXCEPT !.val = pure_sun_longitude[<<f.a, f.tz>>], !.pc = "store"]>>
      [] f.fn = "get_lunar_month11" ->
            <<[f EXCEPT !.k = month11_index(f.a), !.pc = "nm"],
              Frame("get_new_moon_day", month11_index(f.a), f.tz)>>
      [] f.fn = "get_leap_month_offset" ->
            <<[f EXCEPT !.k = anchor_index(f.a), !.i = 1, !.pc = "nm"],
              Frame("get_new_moon_day", anchor_index(f.a) + 1, f.tz)>>

\* the body of get_lunar_month11 from the return of a call with value v
resume_month11(f, v) ==
    CASE f.pc = "nm" ->
            <<[f EXCEPT !.nm = v, !.pc = "sun_long"], Frame("get_sun_longitude", v, f.tz)>>
      [] f.pc = "sun_long" ->
            IF v >= 9
            THEN <<[f EXCEPT !.pc = "nm_before"], Frame("get_new_moon_day", f.k - 1, f.tz)>>
            ELSE <<[f EXCEPT !.val = f.nm, !.pc = "store"]>>
      [] f.pc = "nm_before" ->
            <<[f EXCEPT !.val = v, !.pc = "store"]>>

\* the body of get_leap_month_offset from the return of a call with value v
resume_leap_offset(f, v) ==
    CASE f.pc = "nm" ->
            <<[f EXCEPT !.pc = IF f.i = 1 THEN "first_arc" ELSE "arc"],
              Frame("get_sun_longitude", v, f.tz)>>
      [] f.pc = "first_arc" ->
            <<[f EXCEPT !.arc = v, !.pc = "nm", !.i = 2],
              Frame("get_new_moon_day", f.k + 2, f.tz)>>
      [] f.pc = "arc" ->
            IF scan_done(v, f.arc, f.i)
            THEN <<[f EXCEPT !.val = f.i - 1, !.pc = "store"]>>
            ELSE <<[f EXCEPT !.arc = v, !.pc = "nm", !.i = f.i + 1],
                   Frame("get_new_moon_day", f.k + f.i + 1, f.tz)>>

resume(f, v) ==
    IF f.fn = "get_lunar_month11" THEN resume_month11(f, v) ELSE resume_leap_offset(f, v)

\* the top frame of thread t returns v: to the caller's body, or to the
\* thread when there is no caller
return(t, v, hit) ==
    LET stack == frames[t]
        n == Len(stack)
    IN  IF n = 1
        THEN /\ frames' = [frames EXCEPT ![t] = <<>>]
             /\ ret' = [ret EXCEPT ![t] = [fn |-> stack[1].fn, a |-> stack[1].a,
                                           tz |-> stack[1].tz, value |-> v, hit |-> hit]]
        ELSE /\ frames' = [frames EXCEPT ![t] = SubSeq(stack, 1, n - 2) \o resume(stack[n - 1], v)]
             /\ UNCHANGED ret

\* dict[key] = value
put(cache, key, value) ==
    [x \in DOMAIN cache \cup {key} |-> IF x = key THEN value ELSE cache[x]]

\* what a thread calls first: the month 11 of CacheYear at the time zone of
\* the tests, and, at either time zone, the new moon that get_lunar_month11
\* starts from
Calls ==
    {Frame("get_lunar_month11", CacheYear, TZ_VN)}
        \cup {Frame("get_new_moon_day", month11_index(CacheYear), time_zone) :
              time_zone \in TimeZones}

\* what a thread calls with the value r of its last call, as the converters
\* and the bodies do: the leap month offset after a month 11, the sector of
\* a new moon
NextCalls(r) ==
    IF r.fn = "get_lunar_month11" THEN {Frame("get_leap_month_offset", r.value, r.tz)}
    ELSE IF r.fn = "get_new_moon_day" THEN {Frame("get_sun_longitude", r.value, r.tz)}
    ELSE {}

InitCache ==
    /\ ColdCaches
    /\ JdnIdle
    /\ ConvIdle
    /\ ScanIdle
    /\ ThreadsIdle

call(t) ==
    /\ frames[t] = <<>>
    /\ \E f \in Calls \cup NextCalls(ret[t]) : frames' = [frames EXCEPT ![t] = <<f>>]
    /\ ret' = [ret EXCEPT ![t] = NoReturn]
    /\ UNCHANGED <<cacheVars, jdnVars, convVars, scan>>

\* the wrapper finds the key
cache_hit(t) ==
    /\ frames[t] # <<>>
    /\ LET f == frames[t][Len(frames[t])]
           key == cache_key(f.a, f.tz)
       IN  /\ f.pc = "lookup"
           /\ key \in DOMAIN cache_of(f.fn)
           /\ return(t, cache_of(f.fn)[key], TRUE)
    /\ UNCHANGED <<cacheVars, jdnVars, convVars, scan>>

\* the wrapper does not find the key and calls the function
cache_miss(t) ==
    /\ frames[t] # <<>>
    /\ LET n == Len(frames[t])
           f == frames[t][n]
       IN  /\ f.pc = "lookup"
           /\ cache_key(f.a, f.tz) \notin DOMAIN cache_of(f.fn)
           /\ frames' = [frames EXCEPT ![t] = SubSeq(frames[t], 1, n - 1) \o enter(f)]
    /\ UNCHANGED <<ret, cacheVars, jdnVars, convVars, scan>>

\* the wrapper stores the function's result and returns it
cache_store(t) ==
    /\ frames[t] # <<>>
    /\ LET f == frames[t][Len(frames[t])]
           key == cache_key(f.a, f.tz)
       IN  /\ f.pc = "store"
           /\ new_moon_cache' =
                  IF f.fn = "get_new_moon_day" THEN put(new_moon_cache, key, f.val)
                  ELSE new_moon_cache
           /\ sun_longitude_cache' =
                  IF f.fn = "get_sun_longitude" THEN put(sun_longitude_cache, key, f.val)
                  ELSE sun_longitude_cache
           /\ lunar_month11_cache' =
                  IF f.fn = "get_lunar_month11" THEN put(lunar_month11_cache, key, f.val)
                  ELSE lunar_month11_cache
           /\ leap_month_offset_cache' =
                  IF f.fn = "get_leap_month_offset" THEN put(leap_month_offset_cache, key, f.val)
                  ELSE leap_month_offset_cache
           /\ return(t, f.val, FALSE)
    /\ UNCHANGED <<jdnVars, convVars, scan>>

NextCache == \E t \in Threads : call(t) \/ cache_hit(t) \/ cache_miss(t) \/ cache_store(t)

SpecCache == InitCache /\ [][NextCache]_vars

\* the value of a call of a memoized function with the arguments a, tz
pure_value(fn, a, time_zone) ==
    CASE fn = "get_new_moon_day" -> pure_new_moon[<<a, time_zone>>]
      [] fn = "get_sun_longitude" -> pure_sun_longitude[<<a, time_zone>>]
      [] fn = "get_lunar_month11" -> lunar_month11(a, time_zone)
      [] fn = "get_leap_month_offset" -> leap_month_offset(a, time_zone)

\* C7: under every interleaving of the callers, every entry of the four
\* caches is the function's value for its key, and every call returns that
\* value, whether it found the key (warm) or computed it (cold).  The two
\* astronomical functions are compared with their bodies; the two that are
\* built on them with their bodies over the astronomical caches.
C7_CacheConsistent ==
    /\ \A key \in DOMAIN new_moon_cache : new_moon_cache[key] = pure_new_moon[key]
    /\ \A key \in DOMAIN sun_longitude_cache :
           sun_longitude_cache[key] = pure_sun_longitude[key]
    /\ \A key \in DOMAIN lunar_month11_cache :
           lunar_month11_cache[key] = lunar_month11(key[1], key[2])
    /\ \A key \in DOMAIN leap_month_offset_cache :
           leap_month_offset_cache[key] = leap_month_offset(key[1], key[2])
    /\ \A t \in Threads :
           ret[t] # NoReturn => ret[t].value = pure_value(ret[t].fn, ret[t].a, ret[t].tz)

\* one thread computed a leap month offset and the other found it cached
C7_Witness ==
    \E t1, t2 \in Threads :
        /\ ret[t1].fn = "get_leap_month_offset"
        /\ ret[t2].fn = "get_leap_month_offset"
        /\ ret[t1].a = ret[t2].a
        /\ ret[t1].tz = ret[t2].tz
        /\ ~ret[t1].hit
        /\ ret[t2].hit
        /\ ret[t1].value = ret[t2].value

=============================================================================
